---- MODULE Spec2Model ----
(***************************************************************************)
(* A model of the event-sourcing runtime github.com/dhamidi/ess: the two   *)
(* EventStore implementations (EventsInMemory, EventsOnDisk) and the       *)
(* command pipeline of Application (Send, Init, Project).                  *)
(***************************************************************************)
EXTENDS Integers, Sequences, FiniteSets, TLC

\* ------------------------------------------------------------------ bounds
\* Most events a store is filled with (guards of the appending actions).
MaxStore == 2
\* Most events in one Store call or published by one HandleCommand call.
MaxBatch == 2
\* Most events a projection handler's log is filled with before Init is
\* no longer called again.
MaxLog == 4
\* Most times one command instance is sent.
MaxSends == 2
\* Most messages one ValidationError is filled with.
MaxMessages == 3

\* ------------------------------------------------------------ value domains
\* Go's zero time.Time, and the time the (static) clock shows.
ZeroTime == 0
TheTime == 1

WILDCARD == "*"

\* Stream ids (aggregate ids) the callers use; the wildcard text is one of
\* the strings an id can be.
StreamIds == {"a", "b", WILDCARD}

\* The ids of the commands sent: an aggregate's, and the wildcard text.
CommandIds == {"a", WILDCARD}

EventNames == {"x", "y"}

\* A Go map with no entries.
EmptyMap == [k \in {} |-> TRUE]

\* Payload values (interface{}): a string, an int, and a channel, which
\* encoding/json cannot encode.
StringVal == [kind |-> "string", v |-> "value"]
IntVal == [kind |-> "int", v |-> 1]
ChanVal == [kind |-> "chan", v |-> 0]

\* error values: nil, an error with a text (errors.New, *os.PathError, a
\* json error), or a *ValidationError (see below).
NoError == [type |-> "nil"]

ErrorText(text) == [type |-> "error", text |-> text]

\* ------------------------------------------------------------------ Event
\* NewEvent(name): only Name and an empty Payload are set.
NewEvent(name) ==
    [Id |-> "", StreamId |-> "", Name |-> name, OccurredOn |-> ZeroTime,
     PersistedAt |-> ZeroTime, Payload |-> EmptyMap]

\* event.For(source): StreamId = source.Id().
For(event, sourceId) == [event EXCEPT !.StreamId = sourceId]

\* event.Add(name, value): Payload[name] = value.
Add(event, name, value) ==
    [event EXCEPT !.Payload =
        [k \in (DOMAIN event.Payload) \cup {name} |->
            IF k = name THEN value ELSE event.Payload[k]]]

\* Mutation: Occur leaves the event as it is.
OccurNothing(event, now) == event

\* event.Occur(clock): OccurredOn = clock.Now().
Occur(event, now) == [event EXCEPT !.OccurredOn = now]

\* Mutation: Persist leaves the event as it is.
PersistNothing(event, now) == event

\* event.Persist(clock): PersistedAt = clock.Now().
Persist(event, now) == [event EXCEPT !.PersistedAt = now]

\* What identifies an event to an observer that logs what it was handed.
EventKey(event) == <<event.StreamId, event.Name>>

Keys(evs) == [i \in 1..Len(evs) |-> EventKey(evs[i])]

IsPrefix(s, t) == Len(s) <= Len(t) /\ SubSeq(t, 1, Len(s)) = s

\* ------------------------------------------------------------------- state
VARIABLES
    kind,        \* the EventStore implementation in use: "memory" or "disk"
    clock,       \* what Clock.Now() returns
    heap,        \* the *Event objects the in-memory store points to
    events,      \* EventsInMemory.events: references into heap
    fileExists,  \* EventsOnDisk: whether the log file exists
    file,        \* EventsOnDisk: the lines of the log file
    appended,    \* history: the events Store took, as they were when taken
    direct,      \* the outcome of the last call a client made on the store or Init
    projected,   \* per projection name, the events its handler was handed
    pc,          \* per caller, the step of Send it is at
    cmd,         \* per caller, the Command being sent
    recv,        \* per caller, the receiver (Aggregate) of the command
    txn,         \* per caller, the transient EventsInMemory of this Send
    res,         \* per caller, the CommandResult (or that none was returned)
    call         \* history, per caller: the store and the projection logs
                 \* when Send was entered, and the calls Send made since

storeVars == <<kind, heap, events, fileExists, file, appended>>
sendVars == <<pc, cmd, recv, txn, res, call>>
vars == <<kind, clock, heap, events, fileExists, file, appended, direct,
          projected, pc, cmd, recv, txn, res, call>>

\* ------------------------------------------------------------ EventsInMemory
\* A []*Event is modelled as a sequence of items: ref = 0 is an Event object
\* the store does not point to yet (its fields are ev); ref = k > 0 is the
\* object heap[k], which the in-memory store already points to.
Item(event) == [ref |-> 0, ev |-> event]

ItemValue(h, item) == IF item.ref = 0 THEN item.ev ELSE h[item.ref]

Values(h, batch) == [i \in 1..Len(batch) |-> ItemValue(h, batch[i])]

IsFresh(item) == item.ref = 0

FreshCount(batch, i) == Cardinality({j \in 1..i : batch[j].ref = 0})

\* The reference the i-th pointer of batch is once its object is in the heap.
RefOf(h, batch, i) ==
    IF batch[i].ref # 0 THEN batch[i].ref ELSE Len(h) + FreshCount(batch, i)

\* EventsInMemory.Store: self.events = append(self.events, events...);
\* return nil.
\* Mutation: self.events = events (the batch replaces what was stored).
EventsInMemoryStoreReplacing(h, evs, batch) ==
    LET fresh == SelectSeq(batch, IsFresh)
    IN  [heap |-> h \o [i \in 1..Len(fresh) |-> fresh[i].ev],
         events |-> [i \in 1..Len(batch) |-> RefOf(h, batch, i)],
         err |-> NoError]

\* Mutation: the last event of the batch is not appended.
EventsInMemoryStoreDroppingLast(h, evs, batch) ==
    LET fresh == SelectSeq(batch, IsFresh)
    IN  [heap |-> h \o [i \in 1..Len(fresh) |-> fresh[i].ev],
         events |-> evs \o [i \in 1..(Len(batch) - 1) |-> RefOf(h, batch, i)],
         err |-> NoError]

EventsInMemoryStore(h, evs, batch) ==
    LET fresh == SelectSeq(batch, IsFresh)
    IN  [heap |-> h \o [i \in 1..Len(fresh) |-> fresh[i].ev],
         events |-> evs \o [i \in 1..Len(batch) |-> RefOf(h, batch, i)],
         err |-> NoError]

\* EventsInMemory.Replay: for _, event := range self.events, hand event to
\* receiver if streamId == "*" || streamId == event.StreamId; return nil.
\* seen is what the receiver was handed, in the order of the calls.
RECURSIVE InMemoryReplayFrom(_, _, _, _)
InMemoryReplayFrom(h, evs, streamId, i) ==
    IF i > Len(evs) THEN <<>>
    ELSE LET event == h[evs[i]]
             rest == InMemoryReplayFrom(h, evs, streamId, i + 1)
         IN  IF streamId = WILDCARD \/ streamId = event.StreamId
             THEN <<event>> \o rest
             ELSE rest

\* Mutation: the test is streamId == event.StreamId alone.
EventsInMemoryReplayNoWildcard(h, evs, streamId) ==
    [seen |-> SelectSeq([i \in 1..Len(evs) |-> h[evs[i]]],
                        LAMBDA event : streamId = event.StreamId),
     err |-> NoError]

EventsInMemoryReplay(h, evs, streamId) ==
    [seen |-> InMemoryReplayFrom(h, evs, streamId, 1), err |-> NoError]

\* -------------------------------------------------------------- EventsOnDisk
\* encoding/json on an Event: strings stay strings, every Go number becomes a
\* JSON number, a time.Time its RFC 3339 text; a channel has no encoding.
Encodable(event) ==
    \A k \in DOMAIN event.Payload : event.Payload[k].kind # "chan"

EncodeValue(val) ==
    IF val.kind = "string" THEN [json |-> "string", v |-> val.v]
    ELSE [json |-> "number", v |-> val.v]

Encode(event) ==
    [Id |-> event.Id, StreamId |-> event.StreamId, Name |-> event.Name,
     OccurredOn |-> [rfc3339 |-> event.OccurredOn],
     PersistedAt |-> [rfc3339 |-> event.PersistedAt],
     Payload |-> [k \in DOMAIN event.Payload |-> EncodeValue(event.Payload[k])]]

\* Decoding into map[string]interface{}: a JSON number becomes a float64.
DecodeValue(jv) ==
    IF jv.json = "string" THEN [kind |-> "string", v |-> jv.v]
    ELSE [kind |-> "float64", v |-> jv.v]

Decode(line) ==
    [Id |-> line.Id, StreamId |-> line.StreamId, Name |-> line.Name,
     OccurredOn |-> line.OccurredOn.rfc3339,
     PersistedAt |-> line.PersistedAt.rfc3339,
     Payload |-> [k \in DOMAIN line.Payload |-> DecodeValue(line.Payload[k])]]

ErrOpen == ErrorText("open: permission denied")
ErrNotExist == ErrorText("open: no such file or directory")
ErrEncode == ErrorText("json: unsupported type")

\* The loop of EventsOnDisk.Store: event.Persist(self.clock), then
\* enc.Encode(event), which writes the line or, failing, returns the error
\* with the earlier lines written. persisted is the batch as Persist left it.
RECURSIVE OnDiskEncodeFrom(_, _, _, _, _)
OnDiskEncodeFrom(batch, now, i, lines, persisted) ==
    IF i > Len(batch)
    THEN [file |-> lines, err |-> NoError, batch |-> persisted, written |-> Len(batch)]
    ELSE LET event == Persist(batch[i], now)
             stamped == [persisted EXCEPT ![i] = event]
         IN  IF ~Encodable(event)
             THEN [file |-> lines, err |-> ErrEncode, batch |-> stamped,
                   written |-> i - 1]
             ELSE OnDiskEncodeFrom(batch, now, i + 1,
                                   Append(lines, Encode(event)), stamped)

\* EventsOnDisk.Store: os.OpenFile(O_CREATE|O_APPEND|O_WRONLY) fails
\* (openFails) and Store returns the error, or creates the file if it is
\* missing and the loop appends to it.
\* Mutation: the file is opened with O_TRUNC instead of O_APPEND.
EventsOnDiskStoreTruncating(exists, lines, batch, now, openFails) ==
    IF openFails
    THEN [exists |-> exists, file |-> lines, err |-> ErrOpen, batch |-> batch,
          written |-> 0]
    ELSE [exists |-> TRUE] @@ OnDiskEncodeFrom(batch, now, 1, <<>>, batch)

\* Mutation: a batch that fails to encode leaves the log file as it was.
EventsOnDiskStoreAllOrNothing(exists, lines, batch, now, openFails) ==
    IF openFails
    THEN [exists |-> exists, file |-> lines, err |-> ErrOpen, batch |-> batch,
          written |-> 0]
    ELSE LET out == OnDiskEncodeFrom(batch, now, 1, lines, batch)
         IN  [exists |-> TRUE]
             @@ (IF out.err = NoError THEN out
                 ELSE [out EXCEPT !.file = lines, !.written = 0])

EventsOnDiskStore(exists, lines, batch, now, openFails) ==
    IF openFails
    THEN [exists |-> exists, file |-> lines, err |-> ErrOpen, batch |-> batch,
          written |-> 0]
    ELSE [exists |-> TRUE] @@ OnDiskEncodeFrom(batch, now, 1, lines, batch)

\* EventsOnDisk.Replay: os.Open fails on a missing file; otherwise decode
\* line after line until io.EOF, handing each matching event to receiver.
RECURSIVE OnDiskReplayFrom(_, _, _)
OnDiskReplayFrom(lines, streamId, i) ==
    IF i > Len(lines) THEN <<>>
    ELSE LET event == Decode(lines[i])
             rest == OnDiskReplayFrom(lines, streamId, i + 1)
         IN  IF streamId = WILDCARD \/ streamId = event.StreamId
             THEN <<event>> \o rest
             ELSE rest

\* Mutation: the stream id test is left out of the decoding loop.
EventsOnDiskReplayUnfiltered(exists, lines, streamId) ==
    IF ~exists
    THEN [seen |-> <<>>, err |-> ErrNotExist]
    ELSE [seen |-> OnDiskReplayFrom(lines, WILDCARD, 1), err |-> NoError]

\* Mutation: the empty stream id is read as the wildcard.
EventsOnDiskReplayEmptyAsWildcard(exists, lines, streamId) ==
    IF ~exists
    THEN [seen |-> <<>>, err |-> ErrNotExist]
    ELSE [seen |-> OnDiskReplayFrom(lines,
                        IF streamId = "" THEN WILDCARD ELSE streamId, 1),
          err |-> NoError]

\* Mutation: a missing log file is read as an empty one.
EventsOnDiskReplayMissingAsEmpty(exists, lines, streamId) ==
    [seen |-> OnDiskReplayFrom(lines, streamId, 1), err |-> NoError]

EventsOnDiskReplay(exists, lines, streamId) ==
    IF ~exists
    THEN [seen |-> <<>>, err |-> ErrNotExist]
    ELSE [seen |-> OnDiskReplayFrom(lines, streamId, 1), err |-> NoError]

\* The file handles one EventsOnDisk.Store call opens and closes: os.OpenFile,
\* then defer out.Close(); a failed OpenFile yields no handle.
EventsOnDiskStoreHandles(openFails) ==
    [opened |-> IF openFails THEN 0 ELSE 1,
     closed |-> IF openFails THEN 0 ELSE 1]

\* The file handles one EventsOnDisk.Replay call opens and closes: os.Open,
\* and no Close on any path out of the function.
EventsOnDiskReplayHandles(exists) ==
    [opened |-> IF exists THEN 1 ELSE 0, closed |-> 0]

\* ---------------------------------------------------- the store in use
\* The handles a call on the configured EventStore left open when it returned.
LeftOpen(handles) ==
    IF kind = "memory" THEN 0 ELSE handles.opened - handles.closed

\* store.Replay(streamId, receiver) on the configured EventStore.
Replay(streamId) ==
    IF kind = "memory"
    THEN EventsInMemoryReplay(heap, events, streamId)
    ELSE EventsOnDiskReplay(fileExists, file, streamId)

\* How many events the store holds.
StoreLen == IF kind = "memory" THEN Len(events) ELSE Len(file)

\* The store's event sequence: the pointers of the in-memory store, the lines
\* of the log file.
StoreSeq == IF kind = "memory" THEN events ELSE file

\* The events the store holds, as a replay reads them now.
StoredEvents ==
    IF kind = "memory" THEN [i \in 1..Len(events) |-> heap[events[i]]]
    ELSE [i \in 1..Len(file) |-> Decode(file[i])]

\* ---------------------------------------------------------- ValidationError
\* A *ValidationError: obj names the instance (pointer identity), Errors is
\* its map from field to the list of messages.
NewValidationError(obj) == [type |-> "validation", obj |-> obj, Errors |-> EmptyMap]

\* Ok: len(self.Errors) == 0.
Ok(verr) == DOMAIN verr.Errors = {}

MessagesOf(errors, field) ==
    IF field \in DOMAIN errors THEN errors[field] ELSE <<>>

\* Add: self.Errors[field] = append(self.Errors[field], desc).
AddError(verr, field, desc) ==
    [verr EXCEPT !.Errors =
        [f \in (DOMAIN verr.Errors) \cup {field} |->
            IF f = field THEN Append(MessagesOf(verr.Errors, field), desc)
            ELSE verr.Errors[f]]]

\* err.Error() of an error that is not nil.
ErrorString(err) == IF err.type = "error" THEN err.text ELSE "validation"

\* Mutation: the lists of the merged ValidationError replace the instance's.
MergeOverwriting(verr, err) ==
    IF err.type # "validation"
    THEN AddError(verr, "$all", ErrorString(err))
    ELSE [verr EXCEPT !.Errors =
            [f \in (DOMAIN verr.Errors) \cup (DOMAIN err.Errors) |->
                IF f \in DOMAIN err.Errors THEN err.Errors[f]
                ELSE verr.Errors[f]]]

\* Mutation: a foreign error is recorded under its own text, not "$all".
MergeUnderOwnText(verr, err) ==
    IF err.type # "validation"
    THEN AddError(verr, ErrorString(err), ErrorString(err))
    ELSE [verr EXCEPT !.Errors =
            [f \in (DOMAIN verr.Errors) \cup (DOMAIN err.Errors) |->
                MessagesOf(verr.Errors, f) \o MessagesOf(err.Errors, f)]]

\* Merge: a *ValidationError has its lists appended field by field; any other
\* error is recorded under "$all". (Merge(nil) calls Error() on a nil
\* interface and panics; Execute below tells that case apart.)
Merge(verr, err) ==
    IF err.type # "validation"
    THEN AddError(verr, "$all", ErrorString(err))
    ELSE [verr EXCEPT !.Errors =
            [f \in (DOMAIN verr.Errors) \cup (DOMAIN err.Errors) |->
                MessagesOf(verr.Errors, f) \o MessagesOf(err.Errors, f)]]

\* Mutation: Return hands out the instance whether or not it is empty.
ReturnSelf(verr) == verr

\* Return: nil if no error was recorded, the instance otherwise.
Return(verr) == IF DOMAIN verr.Errors = {} THEN NoError ELSE verr

\* ------------------------------------------------------------------ Command
\* The callers of Send and the projections registered before Init.
Main == "main"
Procs == {Main, "other"}
Projections == {"p", "q"}

\* Command.receiver while it is nil; an instance the receiverFunc built is
\* named by the number of the call that built it.
NoInstance == 0

\* A command as NewCommand and Set/FromForm leave it: the text of its
\* identifier field, the parse errors recorded so far, and no receiver. built
\* and sends are history: the calls of receiverFunc and of Send so far.
NewCommand(id, errors) ==
    [id |-> id, now |-> ZeroTime, errors |-> errors, receiver |-> NoInstance,
     built |-> 0, sends |-> 0]

\* Acknowledge: self.Fields["now"] = &Time{clock.Now()}.
Acknowledge(command, now) == [command EXCEPT !.now = now]

\* AggregateId: the text of the command's identifier field.
AggregateId(command) == command.id

\* Mutation: Receiver calls receiverFunc whether or not it did before.
ReceiverUnmemoized(command) ==
    [command EXCEPT !.receiver = command.built + 1, !.built = @ + 1]

\* Receiver: if self.receiver == nil, self.receiver = self.receiverFunc(self);
\* built counts the calls of receiverFunc.
Receiver(command) ==
    IF command.receiver = NoInstance
    THEN [command EXCEPT !.receiver = command.built + 1, !.built = @ + 1]
    ELSE command

\* Mutation: with parse errors recorded Execute returns them alone.
ExecuteParseErrorsOnly(command, handlerErr) ==
    IF ~Ok(command.errors)
    THEN [panic |-> FALSE, err |-> Return(command.errors),
          errors |-> command.errors]
    ELSE [panic |-> FALSE, err |-> handlerErr, errors |-> command.errors]

\* Execute: err := self.receiver.HandleCommand(self); with parse errors
\* recorded, self.errors.Merge(err).Return(), else err. handlerErr is what
\* HandleCommand returned; errors is self.errors as the call leaves it (Merge
\* writes to it).
Execute(command, handlerErr) ==
    IF ~Ok(command.errors)
    THEN IF handlerErr = NoError
         THEN [panic |-> TRUE, err |-> NoError, errors |-> command.errors]
         ELSE LET merged == Merge(command.errors, handlerErr)
              IN  [panic |-> FALSE, err |-> Return(merged), errors |-> merged]
    ELSE [panic |-> FALSE, err |-> handlerErr, errors |-> command.errors]

\* CommandResult
NoResult == [returned |-> FALSE]
NewErrorResult(err) == [returned |-> TRUE, aggregateId |-> "", err |-> err]
\* Mutation: the success result does not carry the receiver's id.
NewSuccessResultWithoutId(receiverId) ==
    [returned |-> TRUE, aggregateId |-> "", err |-> NoError]

NewSuccessResult(receiverId) ==
    [returned |-> TRUE, aggregateId |-> receiverId, err |-> NoError]

\* The receiver the command's receiverFunc constructs (a TestAggregate):
\* its id, the events HandleEvent was handed, the calls of HandleCommand and
\* the error it returned.
NewTestAggregate(id) ==
    [id |-> id, seen |-> <<>>, handled |-> 0, error |-> NoError]

NoCommand == NewCommand("", NewValidationError("command"))
NoReceiver == NewTestAggregate("")
NoCall == [op |-> "none"]
NoHistory == [store |-> <<>>, keys |-> <<>>,
              projected |-> [n \in Projections |-> <<>>], calls |-> <<>>,
              replayErr |-> NoError, storeErr |-> NoError]

\* Mutation: the error of Replay is not looked at.
AfterReplayIgnoringError(err) == [pc |-> "execute", res |-> NoResult]

\* How Send goes on after self.store.Replay returned err.
AfterReplay(err) ==
    IF err # NoError THEN [pc |-> "done", res |-> NewErrorResult(err)]
    ELSE [pc |-> "execute", res |-> NoResult]

\* Mutation: the error of Execute is not looked at.
AfterExecuteIgnoringError(out) ==
    IF out.panic THEN [pc |-> "panic", res |-> NoResult]
    ELSE [pc |-> "store", res |-> NoResult]

\* How Send goes on after command.Execute() returned err (or panicked).
AfterExecute(out) ==
    IF out.panic THEN [pc |-> "panic", res |-> NoResult]
    ELSE IF out.err # NoError THEN [pc |-> "done", res |-> NewErrorResult(out.err)]
    ELSE [pc |-> "store", res |-> NoResult]

\* Mutation: the error of Store is not looked at.
AfterStoreIgnoringError(err) == [pc |-> "project", res |-> NoResult]

\* How Send goes on after self.store.Store(events) returned err.
AfterStore(err) ==
    IF err # NoError THEN [pc |-> "done", res |-> NewErrorResult(err)]
    ELSE [pc |-> "project", res |-> NoResult]

\* Mutation: the store reports no error whatever happened.
StoreReportingNoError(h, batch, openFails) ==
    IF kind = "memory"
    THEN LET out == EventsInMemoryStore(h, events, batch)
         IN  [heap |-> out.heap, events |-> out.events, exists |-> fileExists,
              file |-> file, err |-> NoError, taken |-> Values(h, batch),
              batch |-> Values(h, batch)]
    ELSE LET out == EventsOnDiskStore(fileExists, file, Values(h, batch), clock,
                                      openFails)
         IN  [heap |-> h, events |-> events, exists |-> out.exists,
              file |-> out.file, err |-> NoError,
              taken |-> SubSeq(out.batch, 1, out.written),
              batch |-> out.batch]

\* store.Store(events) on the configured EventStore, with h the heap as the
\* caller left it. taken is what the store took, as it took it; batch is the
\* caller's events as the call left them.
Store(h, batch, openFails) ==
    IF kind = "memory"
    THEN LET out == EventsInMemoryStore(h, events, batch)
         IN  [heap |-> out.heap, events |-> out.events, exists |-> fileExists,
              file |-> file, err |-> out.err, taken |-> Values(h, batch),
              batch |-> Values(h, batch)]
    ELSE LET out == EventsOnDiskStore(fileExists, file, Values(h, batch), clock,
                                      openFails)
         IN  [heap |-> h, events |-> events, exists |-> out.exists,
              file |-> out.file, err |-> out.err,
              taken |-> SubSeq(out.batch, 1, out.written),
              batch |-> out.batch]

\* Mutation: the loop over the projections returns after the first handler.
ProjectFirstOnly(logs, event) ==
    [n \in Projections |->
        IF n = "p" THEN Append(logs[n], EventKey(event)) ELSE logs[n]]

\* Application.Project: handler.HandleEvent(event) for every projection.
Project(logs, event) ==
    [n \in Projections |-> Append(logs[n], EventKey(event))]

RECURSIVE ProjectAll(_, _, _)
ProjectAll(logs, evs, i) ==
    IF i > Len(evs) THEN logs
    ELSE ProjectAll(Project(logs, evs[i]), evs, i + 1)

\* for _, event := range events { event.Occur(self.clock) }: the objects the
\* transaction points to are stamped, those of the heap included.
OccurHeap(h, batch, now) ==
    [k \in 1..Len(h) |->
        IF \E i \in 1..Len(batch) : batch[i].ref = k THEN Occur(h[k], now)
        ELSE h[k]]

OccurBatch(batch, now) ==
    [i \in 1..Len(batch) |->
        IF batch[i].ref = 0 THEN [batch[i] EXCEPT !.ev = Occur(@, now)]
        ELSE batch[i]]

\* ------------------------------------------------------------------- inputs
Min(m, n) == IF m <= n THEN m ELSE n

\* The batches over S of at most MaxBatch events that still fit the store.
Batches(S) ==
    UNION {[1..n -> S] : n \in 0..Min(MaxBatch, MaxStore - StoreLen)}

\* The events a client builds for a direct Store call:
\* NewEvent(name).For(aggregate), some with a payload value added.
HistoryEvents ==
    {For(NewEvent(n), "a") : n \in EventNames}
    \cup {For(NewEvent("x"), "b"),
          For(NewEvent("x"), WILDCARD),
          Add(For(NewEvent("x"), "a"), "param", StringVal),
          Add(For(NewEvent("y"), "a"), "param", IntVal),
          Add(For(NewEvent("x"), "b"), "param", ChanVal)}

\* The event a client of the application stores itself to set up history.
SetupEvents == {For(NewEvent("x"), "b")}

\* The events a receiver publishes in HandleCommand: NewEvent(name).For(self),
\* one of them with a payload encoding/json refuses.
PublishedEvents(id) ==
    {For(NewEvent(n), id) : n \in EventNames}
    \cup {Add(For(NewEvent("x"), id), "param", ChanVal)}

\* The objects of the store the receiver was handed by the replay, which it
\* may publish again.
ReplayedItems(id) ==
    IF kind = "memory"
    THEN {[ref |-> events[i], ev |-> heap[events[i]]] :
            i \in {j \in 1..Len(events) :
                     id = WILDCARD \/ heap[events[j]].StreamId = id}}
    ELSE {}

\* What HandleCommand may return: nil, a *ValidationError of its own, or
\* another error.
ReceiverFailure == AddError(NewValidationError("receiver"), "param", "invalid")
HandlerErrors == {NoError, ReceiverFailure, ErrorText("boom")}

\* What Set/FromForm may have recorded on the command before it is sent.
ParseErrors ==
    {NewValidationError("command"),
     AddError(NewValidationError("command"), "param", "malformed")}

\* Whether os.OpenFile fails in EventsOnDisk.Store (the in-memory store opens
\* nothing).
OpenOutcomes == IF kind = "disk" THEN BOOLEAN ELSE {FALSE}

\* --------------------------------------------------------------- operations
Idle == \A p \in Procs : pc[p] = "idle"

TypeOK ==
    /\ kind \in {"memory", "disk"}
    /\ clock = TheTime
    /\ fileExists \in BOOLEAN
    /\ \A p \in Procs :
        pc[p] \in {"idle", "new", "replay", "execute", "store", "project", "done",
                    "panic"}

Init ==
    /\ kind \in {"memory", "disk"}
    /\ clock = TheTime
    /\ heap = <<>>
    /\ events = <<>>
    /\ fileExists = FALSE
    /\ file = <<>>
    /\ appended = <<>>
    /\ direct = NoCall
    /\ projected = [n \in Projections |-> <<>>]
    /\ pc = [p \in Procs |-> "idle"]
    /\ cmd = [p \in Procs |-> NoCommand]
    /\ recv = [p \in Procs |-> NoReceiver]
    /\ txn = [p \in Procs |-> <<>>]
    /\ res = [p \in Procs |-> NoResult]
    /\ call = [p \in Procs |-> NoHistory]

\* A client calls store.Store(batch) itself (as the tests do to set up a
\* history).
StoreCall(batch) ==
    /\ Idle
    /\ StoreLen + Len(batch) <= MaxStore
    /\ \E openFails \in OpenOutcomes :
        LET out == Store(heap, batch, openFails)
        IN  /\ heap' = out.heap
            /\ events' = out.events
            /\ fileExists' = out.exists
            /\ file' = out.file
            /\ appended' = appended \o out.taken
            /\ direct' = [op |-> "Store", before |-> StoreSeq, batch |-> batch,
                          err |-> out.err, after |-> out.batch,
                          open |-> LeftOpen(EventsOnDiskStoreHandles(openFails))]
    /\ UNCHANGED <<kind, clock, projected, sendVars>>

\* A client calls store.Replay(streamId, handler) with a handler that logs
\* what it is handed.
ReplayCall(streamId) ==
    /\ Idle
    /\ LET out == Replay(streamId)
       IN  direct' = [op |-> "Replay", streamId |-> streamId, seen |-> out.seen,
                      err |-> out.err,
                      open |-> LeftOpen(EventsOnDiskReplayHandles(fileExists))]
    /\ UNCHANGED <<storeVars, clock, projected, sendVars>>

\* Mutation: Init replays one aggregate's stream instead of "*".
AppInitOneStream ==
    /\ Idle
    /\ \A n \in Projections : Len(projected[n]) + StoreLen <= MaxLog
    /\ LET out == Replay("a")
       IN  /\ projected' = ProjectAll(projected, out.seen, 1)
           /\ direct' = [op |-> "Init", err |-> out.err, before |-> projected,
                         store |-> StoreSeq]
    /\ UNCHANGED <<storeVars, clock, sendVars>>

\* Mutation: Init remembers having run and hands over nothing again.
AppInitOnce ==
    /\ Idle
    /\ \A n \in Projections : Len(projected[n]) + StoreLen <= MaxLog
    /\ LET out == Replay(WILDCARD)
       IN  /\ projected' = IF \A n \in Projections : projected[n] = <<>>
                           THEN ProjectAll(projected, out.seen, 1)
                           ELSE projected
           /\ direct' = [op |-> "Init", err |-> out.err, before |-> projected,
                         store |-> StoreSeq]
    /\ UNCHANGED <<storeVars, clock, sendVars>>

\* Application.Init: self.store.Replay("*", EventHandlerFunc(self.Project)).
\* direct records the projection logs and the store as they were at the call.
AppInit ==
    /\ Idle
    /\ \A n \in Projections : Len(projected[n]) + StoreLen <= MaxLog
    /\ LET out == Replay(WILDCARD)
       IN  /\ projected' = ProjectAll(projected, out.seen, 1)
           /\ direct' = [op |-> "Init", err |-> out.err, before |-> projected,
                         store |-> StoreSeq]
    /\ UNCHANGED <<storeVars, clock, sendVars>>

\* Application.Send, up to the replay: command.Acknowledge(self.clock) and
\* receiver := command.Receiver().
SendBegin(p, id, errors) ==
    /\ pc[p] = "idle"
    /\ cmd' = [cmd EXCEPT ![p] =
                [Receiver(Acknowledge(NewCommand(id, errors), clock))
                    EXCEPT !.sends = 1]]
    /\ recv' = [recv EXCEPT ![p] = NewTestAggregate(id)]
    /\ call' = [call EXCEPT ![p] =
                    [NoHistory EXCEPT !.store = StoreSeq,
                                      !.keys = Keys(StoredEvents),
                                      !.projected = projected]]
    /\ pc' = [pc EXCEPT ![p] = "replay"]
    /\ direct' = NoCall
    /\ UNCHANGED <<storeVars, clock, projected, txn, res>>

\* self.store.Replay(receiver.Id(), receiver); an error is returned as the
\* result.
SendReplay(p) ==
    /\ pc[p] = "replay"
    /\ LET out == Replay(recv[p].id)
       IN  /\ recv' = [recv EXCEPT ![p].seen = Keys(out.seen)]
           /\ res' = [res EXCEPT ![p] = AfterReplay(out.err).res]
           /\ pc' = [pc EXCEPT ![p] = AfterReplay(out.err).pc]
           /\ call' = [call EXCEPT ![p].calls = Append(@, "Replay"),
                                   ![p].replayErr = out.err]
    /\ UNCHANGED <<storeVars, clock, direct, projected, cmd, txn>>

\* Mutation: the receiver publishes with the application's store.
SendExecuteIntoStore(p, published, handlerErr) ==
    /\ pc[p] = "execute"
    /\ StoreLen + Len(published) <= MaxStore
    /\ txn' = [txn EXCEPT ![p] = published]
    /\ recv' = [recv EXCEPT ![p].handled = @ + 1, ![p].error = handlerErr]
    /\ call' = [call EXCEPT ![p].calls = Append(@, "HandleCommand")]
    /\ LET out == Execute(cmd[p], handlerErr)
       IN  /\ pc' = [pc EXCEPT ![p] = AfterExecute(out).pc]
           /\ res' = [res EXCEPT ![p] = AfterExecute(out).res]
           /\ cmd' = [cmd EXCEPT ![p].errors = out.errors]
    /\ LET out == Store(heap, published, FALSE)
       IN  /\ heap' = out.heap
           /\ events' = out.events
           /\ fileExists' = out.exists
           /\ file' = out.file
           /\ appended' = appended \o out.taken
    /\ UNCHANGED <<kind, clock, direct, projected>>

\* transaction := NewEventsInMemory(); receiver.PublishWith(transaction);
\* command.Execute(): HandleCommand publishes `published` into the
\* transaction and returns handlerErr.
SendExecute(p, published, handlerErr) ==
    /\ pc[p] = "execute"
    /\ StoreLen + Len(published) <= MaxStore
    /\ txn' = [txn EXCEPT ![p] = published]
    /\ recv' = [recv EXCEPT ![p].handled = @ + 1, ![p].error = handlerErr]
    /\ call' = [call EXCEPT ![p].calls = Append(@, "HandleCommand")]
    /\ LET out == Execute(cmd[p], handlerErr)
       IN  /\ pc' = [pc EXCEPT ![p] = AfterExecute(out).pc]
           /\ res' = [res EXCEPT ![p] = AfterExecute(out).res]
           /\ cmd' = [cmd EXCEPT ![p].errors = out.errors]
    /\ UNCHANGED <<storeVars, clock, direct, projected>>

\* events := transaction.Events(); event.Occur(self.clock) for each;
\* self.store.Store(events); an error is returned as the result.
SendStore(p) ==
    /\ pc[p] = "store"
    /\ \E openFails \in OpenOutcomes :
        LET stamped == OccurBatch(txn[p], clock)
            out == Store(OccurHeap(heap, txn[p], clock), stamped, openFails)
        IN  /\ heap' = out.heap
            /\ events' = out.events
            /\ fileExists' = out.exists
            /\ file' = out.file
            /\ appended' = appended \o out.taken
            /\ txn' = [txn EXCEPT ![p] = stamped]
            /\ res' = [res EXCEPT ![p] = AfterStore(out.err).res]
            /\ pc' = [pc EXCEPT ![p] = AfterStore(out.err).pc]
            /\ call' = [call EXCEPT ![p].calls = Append(@, "Store"),
                                    ![p].storeErr = out.err]
    /\ UNCHANGED <<kind, clock, direct, projected, cmd, recv>>

\* for _, event := range events { self.Project(event) };
\* return NewSuccessResult(receiver).
SendProject(p) ==
    /\ pc[p] = "project"
    /\ projected' = ProjectAll(projected, Values(heap, txn[p]), 1)
    /\ res' = [res EXCEPT ![p] = NewSuccessResult(recv[p].id)]
    /\ pc' = [pc EXCEPT ![p] = "done"]
    /\ call' = [call EXCEPT ![p].calls =
                    @ \o [i \in 1..Len(txn[p]) |-> "Project"]]
    /\ UNCHANGED <<storeVars, clock, direct, cmd, recv, txn>>

\* Send has returned (or panicked and the caller recovered): the command,
\* its receiver and the transaction are dropped.
SendReturn(p) ==
    /\ pc[p] \in {"done", "panic"}
    /\ pc' = [pc EXCEPT ![p] = "idle"]
    /\ cmd' = [cmd EXCEPT ![p] = NoCommand]
    /\ recv' = [recv EXCEPT ![p] = NoReceiver]
    /\ txn' = [txn EXCEPT ![p] = <<>>]
    /\ res' = [res EXCEPT ![p] = NoResult]
    /\ call' = [call EXCEPT ![p] = NoHistory]
    /\ UNCHANGED <<storeVars, clock, direct, projected>>

Send(p) ==
    \/ \E id \in CommandIds, errors \in ParseErrors : SendBegin(p, id, errors)
    \/ SendReplay(p)
    \/ \E published \in Batches({Item(e) : e \in PublishedEvents(recv[p].id)}
                                \cup ReplayedItems(recv[p].id)),
          handlerErr \in HandlerErrors :
            SendExecute(p, published, handlerErr)
    \/ SendStore(p)
    \/ SendProject(p)
    \/ SendReturn(p)

\* The application with its store: commands are sent, Init is called, and a
\* client sets up history on the store or replays it.
Next ==
    \/ \E batch \in Batches({Item(e) : e \in SetupEvents}) : StoreCall(batch)
    \/ \E streamId \in StreamIds : ReplayCall(streamId)
    \/ AppInit
    \/ Send(Main)

Spec == Init /\ [][Next]_vars

\* The store alone, under a client that stores and replays.
StoreNext ==
    \/ \E batch \in Batches({Item(e) : e \in HistoryEvents}) : StoreCall(batch)
    \/ \E streamId \in StreamIds : ReplayCall(streamId)

StoreSpec == Init /\ [][StoreNext]_vars

\* Stream ids that differ from "a" by case, by being an extension of it and
\* by being its (empty) proper prefix.
MatchIds == {"", "a", "ab", "A"}

\* The events a client stores under them.
MatchEvents == {For(NewEvent("x"), id) : id \in MatchIds}

\* The store under a client that stores such events and replays by such ids
\* and by the wildcard.
MatchNext ==
    \/ \E batch \in Batches({Item(e) : e \in MatchEvents}) : StoreCall(batch)
    \/ \E streamId \in MatchIds \cup {WILDCARD} : ReplayCall(streamId)

MatchSpec == Init /\ [][MatchNext]_vars

\* ------------------------------------------------- the sign-up example (User)
SignedUpName == "user.signed-up"

\* The usernames the sign-up commands carry.
UserIds == {"a", "b"}

\* Mutation: HandleEvent does not note the sign-up.
SignedUpNever(seen) == FALSE

\* User.HandleEvent over the replayed events: signedUp is set by a
\* "user.signed-up" event.
SignedUp(seen) == \E i \in 1..Len(seen) : seen[i][2] = SignedUpName

\* Mutation: SignUp does not look at signedUp.
UserSignUpUnchecked(id, signedUp, passwordEmpty, emailEmpty) ==
    LET e1 == NewValidationError("receiver")
        e2 == IF passwordEmpty THEN AddError(e1, "password", "empty") ELSE e1
        e3 == IF emailEmpty THEN AddError(e2, "email", "empty") ELSE e2
        event == Add(Add(Add(For(NewEvent(SignedUpName), id),
                     "password", StringVal), "email", StringVal), "name", StringVal)
    IN  [err |-> Return(e3),
         published |-> IF Ok(e3) THEN <<Item(event)>> ELSE <<>>]

\* User.SignUp: the errors it records, and the event it publishes if there
\* are none.
UserSignUp(id, signedUp, passwordEmpty, emailEmpty) ==
    LET e0 == NewValidationError("receiver")
        e1 == IF signedUp THEN AddError(e0, "username", "not_unique") ELSE e0
        e2 == IF passwordEmpty THEN AddError(e1, "password", "empty") ELSE e1
        e3 == IF emailEmpty THEN AddError(e2, "email", "empty") ELSE e2
        event == Add(Add(Add(For(NewEvent(SignedUpName), id),
                     "password", StringVal), "email", StringVal), "name", StringVal)
    IN  [err |-> Return(e3),
         published |-> IF Ok(e3) THEN <<Item(event)>> ELSE <<>>]

\* The execute step of Send for a sign-up command: User.HandleCommand calls
\* SignUp with the command's fields.
SignUpExecute(p) ==
    /\ pc[p] = "execute"
    /\ \E passwordEmpty \in BOOLEAN, emailEmpty \in BOOLEAN :
        LET out == UserSignUp(recv[p].id, SignedUp(recv[p].seen),
                              passwordEmpty, emailEmpty)
        IN  SendExecute(p, out.published, out.err)

\* Send of a sign-up command by caller p.
UserSend(p) ==
    \/ \E id \in UserIds, errors \in ParseErrors : SendBegin(p, id, errors)
    \/ SendReplay(p)
    \/ SignUpExecute(p)
    \/ SendStore(p)
    \/ SendProject(p)
    \/ SendReturn(p)

\* Sign-up commands sent by callers that do not wait for each other (the
\* http handlers of the example); Store(<<>>) creates the log file.
RaceNext ==
    \/ StoreCall(<<>>)
    \/ \E p \in Procs : UserSend(p)

RaceSpec == Init /\ [][RaceNext]_vars

\* Sign-up commands sent strictly one after the other.
SignUpNext ==
    \/ StoreCall(<<>>)
    \/ \E p \in Procs :
        /\ \A q \in Procs \ {p} : pc[q] = "idle"
        /\ UserSend(p)

SignUpSpec == Init /\ [][SignUpNext]_vars

\* ------------------------------------------- one command instance, reused
\* The identifier texts of the commands a client builds: none, or an id.
ClientCommandIds == {"", "a"}

\* A client builds a command: definition.NewCommand() and Set calls.
CommandNew(p, id, errors) ==
    /\ pc[p] = "idle"
    /\ cmd' = [cmd EXCEPT ![p] = NewCommand(id, errors)]
    /\ pc' = [pc EXCEPT ![p] = "new"]
    /\ UNCHANGED <<storeVars, clock, direct, projected, recv, txn, res, call>>

\* The aggregate a command's receiver is once command.Receiver() returned:
\* the one it had, or the one receiverFunc builds from the command now.
ReceiverOf(p, command) ==
    IF command.receiver = NoInstance THEN NewTestAggregate(AggregateId(command))
    ELSE recv[p]

\* A client calls command.Receiver() on a command it holds.
ReceiverCall(p) ==
    /\ pc[p] \in {"new", "done", "panic"}
    /\ cmd' = [cmd EXCEPT ![p] = Receiver(cmd[p])]
    /\ recv' = [recv EXCEPT ![p] = ReceiverOf(p, cmd[p])]
    /\ UNCHANGED <<storeVars, clock, direct, projected, pc, txn, res, call>>

\* A client passes a command it holds to Send, for the first time or again:
\* command.Acknowledge(self.clock) and receiver := command.Receiver().
CommandSend(p) ==
    /\ pc[p] \in {"new", "done", "panic"}
    /\ cmd[p].sends < MaxSends
    /\ LET acknowledged == Acknowledge(cmd[p], clock)
       IN  /\ cmd' = [cmd EXCEPT ![p] =
                        [Receiver(acknowledged) EXCEPT !.sends = @ + 1]]
           /\ recv' = [recv EXCEPT ![p] = ReceiverOf(p, acknowledged)]
    /\ call' = [call EXCEPT ![p] =
                    [NoHistory EXCEPT !.store = StoreSeq,
                                      !.keys = Keys(StoredEvents),
                                      !.projected = projected]]
    /\ txn' = [txn EXCEPT ![p] = <<>>]
    /\ res' = [res EXCEPT ![p] = NoResult]
    /\ pc' = [pc EXCEPT ![p] = "replay"]
    /\ direct' = NoCall
    /\ UNCHANGED <<storeVars, clock, projected>>

\* A client that builds commands, asks for their receiver and sends them,
\* some of them more than once.
CommandNext ==
    \/ \E id \in ClientCommandIds, errors \in ParseErrors :
            CommandNew(Main, id, errors)
    \/ ReceiverCall(Main)
    \/ CommandSend(Main)
    \/ SendReplay(Main)
    \/ \E published \in Batches({Item(e) : e \in PublishedEvents(recv[Main].id)}),
          handlerErr \in HandlerErrors :
            SendExecute(Main, published, handlerErr)
    \/ SendStore(Main)
    \/ SendProject(Main)
    \/ SendReturn(Main)

CommandSpec == Init /\ [][CommandNext]_vars

\* ------------------------------------------- a ValidationError under a client
\* The fields and descriptions the client's Add calls name.
ErrorFields == {"f", "g", "$all"}
ErrorDescs == {"d", "e"}

RECURSIVE SumOver(_, _)
SumOver(errors, fields) ==
    IF fields = {} THEN 0
    ELSE LET f == CHOOSE g \in fields : TRUE
         IN  Len(errors[f]) + SumOver(errors, fields \ {f})

\* How many messages a ValidationError holds.
MessageCount(verr) == SumOver(verr.Errors, DOMAIN verr.Errors)

\* The errors the client passes to Merge: nil, errors.New(...), and
\* ValidationErrors built with NewValidationError and Add.
MergedErrors ==
    {NoError, ErrorText("boom"), ErrorText("test error"),
     NewValidationError("other"),
     AddError(NewValidationError("other"), "f", "d"),
     AddError(AddError(NewValidationError("other"), "g", "e"), "$all", "d")}

\* What the client sees of the instance after a call: the instance, Ok() and
\* Return(); recorded tells whether a call so far recorded an error.
Observed(verr, before, recorded, op, arg, panicked) ==
    [op |-> "ValidationError", verr |-> verr, before |-> before,
     recorded |-> recorded, last |-> op, arg |-> arg, panicked |-> panicked,
     ok |-> Ok(verr), returned |-> Return(verr)]

\* The client calls NewValidationError().
NewValidationErrorCall ==
    /\ Idle
    /\ LET verr == NewValidationError("subject")
       IN  direct' = Observed(verr, verr, FALSE, "New", NoError, FALSE)
    /\ UNCHANGED <<storeVars, clock, projected, sendVars>>

\* The client calls Add(field, desc) on the instance.
AddCall(field, desc) ==
    /\ direct.op = "ValidationError"
    /\ MessageCount(direct.verr) < MaxMessages
    /\ direct' = Observed(AddError(direct.verr, field, desc), direct.verr, TRUE,
                          "Add", NoError, FALSE)
    /\ UNCHANGED <<storeVars, clock, projected, sendVars>>

\* The client calls Merge(err) on the instance; Merge(nil) panics in
\* err.Error() before anything is recorded.
MergeCall(err) ==
    /\ direct.op = "ValidationError"
    /\ IF err = NoError
       THEN direct' = Observed(direct.verr, direct.verr, direct.recorded,
                               "Merge", err, TRUE)
       ELSE /\ MessageCount(direct.verr)
                + (IF err.type = "validation" THEN MessageCount(err) ELSE 1)
                    <= MaxMessages
            /\ direct' = Observed(Merge(direct.verr, err), direct.verr,
                                  direct.recorded
                                    \/ err.type # "validation"
                                    \/ MessageCount(err) > 0,
                                  "Merge", err, FALSE)
    /\ UNCHANGED <<storeVars, clock, projected, sendVars>>

ErrorsNext ==
    \/ NewValidationErrorCall
    \/ \E field \in ErrorFields, desc \in ErrorDescs : AddCall(field, desc)
    \/ \E err \in MergedErrors : MergeCall(err)

ErrorsSpec == Init /\ [][ErrorsNext]_vars

\* --------------------------------------------- populating a command's fields
\* The fields of the sign-up command definition, in the order the loop of
\* FromForm happens to visit them, and their Value types.
FieldOrder == <<"username", "name", "email", "password">>
FieldNames == {FieldOrder[i] : i \in 1..Len(FieldOrder)}
FieldType ==
    [f \in FieldNames |->
        CASE f = "username" -> "Identifier"
          [] f = "name" -> "TrimmedString"
          [] f = "email" -> "Email"
          [] f = "password" -> "Password"]

\* The texts a form or a Set call carries.
Texts == {"", "admin", " admin ", "Bad Id", "a@b.c"}

\* strings.TrimSpace on the texts above.
TrimSpace(text) == IF text = " admin " THEN "admin" ELSE text

\* identifierRegexp ^[-a-z0-9]+$ on the (trimmed) texts above.
MatchesIdentifier(text) == text = "admin"

\* mail.ParseAddress succeeds on the texts above.
IsAddress(text) == text = "a@b.c"

\* value.UnmarshalText(text) by the type of the Value: the error it returns
\* and what value.String() is afterwards (was, if nothing was stored).
UnmarshalText(type, was, text) ==
    CASE type = "Identifier" ->
            IF MatchesIdentifier(TrimSpace(text))
            THEN [err |-> NoError, value |-> TrimSpace(text)]
            ELSE [err |-> ErrorText("malformed_identifier"), value |-> was]
      [] type = "TrimmedString" ->
            [err |-> NoError, value |-> TrimSpace(text)]
      [] type = "Email" ->
            IF IsAddress(text) THEN [err |-> NoError, value |-> text]
            ELSE [err |-> ErrorText("mail: no address"), value |-> was]
      [] type = "Password" ->
            IF text = "" THEN [err |-> ErrorText("empty"), value |-> was]
            ELSE [err |-> NoError, value |-> "bcrypt"]

\* definition.NewCommand(): a copy of every field's Value, and no errors.
NewFormCommand ==
    [Fields |-> [f \in FieldNames |-> ""], errors |-> NewValidationError("command")]

\* One parse of a field that exists: the value is stored, or the error is
\* recorded under the field's name (self.err(field, err)).
ParseField(command, name, text) ==
    LET out == UnmarshalText(FieldType[name], command.Fields[name], text)
    IN  [Fields |-> [command.Fields EXCEPT ![name] = out.value],
         errors |-> IF out.err = NoError THEN command.errors
                    ELSE AddError(command.errors, name, ErrorString(out.err))]

\* Mutation: a name that is no field is recorded as an error.
SetRecordingUnknown(command, name, text) ==
    IF name \in FieldNames THEN ParseField(command, name, text)
    ELSE [command EXCEPT !.errors = AddError(@, name, "unknown")]

\* Command.Set(name, value): a name that is no field is ignored.
Set(command, name, text) ==
    IF name \in FieldNames THEN ParseField(command, name, text) ELSE command

\* The loop of Command.FromForm from the i-th field on.
RECURSIVE FromFormFrom(_, _, _)
FromFormFrom(command, form, i) ==
    IF i > Len(FieldOrder) THEN command
    ELSE FromFormFrom(ParseField(command, FieldOrder[i], form[FieldOrder[i]]),
                      form, i + 1)

\* Mutation: the loop returns at the first field that fails to parse.
FromFormStopping(command, form) ==
    LET fails(i) == UnmarshalText(FieldType[FieldOrder[i]], "",
                                  form[FieldOrder[i]]).err # NoError
        failing == {i \in 1..Len(FieldOrder) : fails(i)}
        last == IF failing = {} THEN Len(FieldOrder)
                ELSE CHOOSE i \in failing : \A j \in failing : i <= j
        visited(f) == \E i \in 1..last : FieldOrder[i] = f
        full == FromFormFrom(command, form, 1)
    IN  [Fields |-> [f \in FieldNames |->
                        IF visited(f) THEN full.Fields[f] ELSE command.Fields[f]],
         errors |-> [full.errors EXCEPT !.Errors =
                        [f \in {g \in DOMAIN full.errors.Errors : visited(g)} |->
                            full.errors.Errors[f]]]]

\* Command.FromForm(form).
FromForm(command, form) == FromFormFrom(command, form, 1)

\* What the client holds after a call on a command.
ObservedCommand(command, before, op, name, text, form) ==
    [op |-> "Command", command |-> command, before |-> before, last |-> op,
     name |-> name, text |-> text, form |-> form]

\* The client calls definition.FromForm(form).
FromFormCall(form) ==
    /\ Idle
    /\ direct.op # "Command"
    /\ direct' = ObservedCommand(FromForm(NewFormCommand, form), NewFormCommand,
                                 "FromForm", "", "", form)
    /\ UNCHANGED <<storeVars, clock, projected, sendVars>>

\* The client calls definition.NewCommand().
NewCommandCall ==
    /\ Idle
    /\ direct.op # "Command"
    /\ direct' = ObservedCommand(NewFormCommand, NewFormCommand, "New", "", "",
                                 EmptyMap)
    /\ UNCHANGED <<storeVars, clock, projected, sendVars>>

\* The client calls command.Set(name, text) on the command it holds.
SetCall(name, text) ==
    /\ direct.op = "Command"
    /\ MessageCount(direct.command.errors) < MaxMessages
    /\ direct' = ObservedCommand(Set(direct.command, name, text), direct.command,
                                 "Set", name, text, EmptyMap)
    /\ UNCHANGED <<storeVars, clock, projected, sendVars>>

FormNext ==
    \/ NewCommandCall
    \/ \E form \in [FieldNames -> Texts] : FromFormCall(form)
    \/ \E name \in FieldNames \cup {"other"}, text \in Texts : SetCall(name, text)

FormSpec == Init /\ [][FormNext]_vars

\* ------------------------------------- commands of one CommandDefinition
\* The Value objects are kept in a sequence, values; a field of the definition
\* or of a command holds a reference into it (a Go pointer).
IdField == "username"

\* The commands the client creates from the definition.
CommandSlots == {1, 2}

\* The texts the client sets on them.
DefinitionTexts == {"admin", "Bad Id"}

\* Mutation: Copy returns the receiver itself.
CopySharing(values, ref) == [values |-> values, ref |-> ref]

\* value.Copy(): a new object with the receiver's content.
Copy(values, ref) ==
    [values |-> Append(values, values[ref]), ref |-> Len(values) + 1]

\* fields[name] = ref on a Go map.
PutField(fields, name, ref) ==
    [f \in (DOMAIN fields) \cup {name} |-> IF f = name THEN ref ELSE fields[f]]

\* for field, val := range self.Fields { cmd.Fields[field] = val.Copy() }
RECURSIVE CopyFieldsFrom(_, _, _, _)
CopyFieldsFrom(values, fields, proto, i) ==
    IF i > Len(FieldOrder) THEN [values |-> values, fields |-> fields]
    ELSE LET copied == Copy(values, proto[FieldOrder[i]])
         IN  CopyFieldsFrom(copied.values,
                            PutField(fields, FieldOrder[i], copied.ref),
                            proto, i + 1)

\* definition.NewCommand(): Fields starts as {IdField: Id()}, then every
\* field of the definition is copied into it; errors is NewValidationError().
NewCommandFrom(values, proto) ==
    LET withId == Append(values, "")
        out == CopyFieldsFrom(withId, PutField(EmptyMap, IdField, Len(withId)),
                              proto, 1)
    IN  [values |-> out.values,
         command |-> [Fields |-> out.fields,
                      errors |-> NewValidationError("command")]]

\* command.Set(name, text) on a command whose fields are references: the
\* object the field points to takes what UnmarshalText stored.
SetIn(values, command, name, text) ==
    LET held == [Fields |-> [f \in DOMAIN command.Fields |->
                                values[command.Fields[f]]],
                 errors |-> command.errors]
        out == Set(held, name, text)
    IN  [values |-> [k \in 1..Len(values) |->
                        IF name \in DOMAIN command.Fields
                            /\ command.Fields[name] = k
                        THEN out.Fields[name] ELSE values[k]],
         command |-> [command EXCEPT !.errors = out.errors]]

\* What value.String() returns for the field of a definition or command.
FieldValues(values, fields) == [f \in DOMAIN fields |-> values[fields[f]]]

\* The client builds the sign-up definition; the "name" prototype may already
\* hold a text.
DefinitionCall(text) ==
    /\ Idle
    /\ direct.op # "Definition"
    /\ direct' = [op |-> "Definition",
                  values |-> [i \in 1..Len(FieldOrder) |->
                                IF FieldOrder[i] = "name" THEN text ELSE ""],
                  proto |-> [f \in FieldNames |->
                                CHOOSE i \in 1..Len(FieldOrder) : FieldOrder[i] = f],
                  commands |-> <<>>]
    /\ UNCHANGED <<storeVars, clock, projected, sendVars>>

\* The client calls definition.NewCommand() and keeps the command.
DefinitionNewCommandCall ==
    /\ direct.op = "Definition"
    /\ Len(direct.commands) + 1 \in CommandSlots
    /\ LET out == NewCommandFrom(direct.values, direct.proto)
       IN  direct' = [direct EXCEPT !.values = out.values,
                                    !.commands = Append(@, out.command)]
    /\ UNCHANGED <<storeVars, clock, projected, sendVars>>

\* The client calls Set(name, text) on the c-th command it created.
DefinitionSetCall(c, name, text) ==
    /\ direct.op = "Definition"
    /\ c \in 1..Len(direct.commands)
    /\ MessageCount(direct.commands[c].errors) < MaxMessages
    /\ LET out == SetIn(direct.values, direct.commands[c], name, text)
       IN  direct' = [direct EXCEPT !.values = out.values,
                                    !.commands[c] = out.command]
    /\ UNCHANGED <<storeVars, clock, projected, sendVars>>

DefinitionNext ==
    \/ \E text \in {"", "admin"} : DefinitionCall(text)
    \/ DefinitionNewCommandCall
    \/ \E c \in CommandSlots, name \in FieldNames \cup {"other"},
          text \in DefinitionTexts : DefinitionSetCall(c, name, text)

DefinitionSpec == Init /\ [][DefinitionNext]_vars

\* ------------------------------------------------------------------- claims
\* The events of stream streamId among evs, in the order of evs.
OfStream(evs, streamId) ==
    SelectSeq(evs, LAMBDA e : e.StreamId = streamId)

\* C1: for either store and after any Store calls, Replay(streamId, handler)
\* with streamId other than "*" hands the handler exactly the stored events
\* whose stream id is streamId, once each, in the order they were appended.
ReplayByStreamId ==
    (direct.op = "Replay" /\ direct.streamId # WILDCARD)
        => Keys(direct.seen) = Keys(OfStream(appended, direct.streamId))

\* A replay of stream "a" on the log file that passed over another stream's
\* event.
ReplayByStreamIdWitness ==
    /\ kind = "disk"
    /\ direct.op = "Replay"
    /\ direct.streamId = "a"
    /\ Len(direct.seen) = 1
    /\ Len(appended) = 2

\* C2: for either store and after any Store calls, Replay("*", handler) hands
\* the handler every stored event, whatever its stream, once each, in the
\* order they were appended.
ReplayAllStreams ==
    (direct.op = "Replay" /\ direct.streamId = WILDCARD)
        => Keys(direct.seen) = Keys(appended)

\* A replay of "*" that delivered two events of two streams, not "*".
ReplayAllStreamsWitness ==
    /\ direct.op = "Replay"
    /\ direct.streamId = WILDCARD
    /\ Len(direct.seen) = 2
    /\ direct.seen[1].StreamId # direct.seen[2].StreamId
    /\ direct.seen[1].StreamId # WILDCARD
    /\ direct.seen[2].StreamId # WILDCARD

\* C3: the store is append-only: whatever Store, Replay, Send or Init does,
\* the event sequence the store held before is a prefix of the one it holds
\* after; nothing stored is removed or moved.
StoreIsAppendOnly ==
    [][/\ IsPrefix(StoreSeq, StoreSeq')
       /\ IsPrefix(Keys(StoredEvents), Keys(StoredEvents'))]_vars

\* A Send has appended its events behind those the store held before.
StoreIsAppendOnlyWitness ==
    /\ pc[Main] = "project"
    /\ Len(call[Main].store) > 0
    /\ Len(StoreSeq) > Len(call[Main].store)

\* C4: when Send is about to invoke the receiver's HandleCommand, the
\* receiver's HandleEvent has been invoked once for each event of the store
\* whose stream id is the receiver's id, in append order, and for no event of
\* another stream.
ReplaysOwnStreamBeforeHandleCommand ==
    \A p \in Procs :
        pc[p] = "execute"
            => recv[p].seen = Keys(OfStream(appended, recv[p].id))

\* C5: if HandleCommand returns an error and no field failed to parse, Send
\* returns a result whose Error() is that error, the store's events are as
\* before the Send and no projection handler was invoked, whatever the
\* receiver published before failing.
HandlerErrorAborts ==
    \A p \in Procs :
        (/\ pc[p] \in {"store", "project", "done", "panic"}
         /\ recv[p].handled > 0
         /\ recv[p].error # NoError
         /\ Ok(cmd[p].errors))
            => /\ pc[p] = "done"
               /\ res[p] = NewErrorResult(recv[p].error)
               /\ StoreSeq = call[p].store
               /\ Keys(StoredEvents) = call[p].keys
               /\ projected = call[p].projected

\* A receiver that published an event and then failed, with an event in the
\* store and one in the projections already.
HandlerErrorAbortsWitness ==
    /\ pc[Main] = "done"
    /\ recv[Main].error = ReceiverFailure
    /\ Ok(cmd[Main].errors)
    /\ Len(txn[Main]) > 0
    /\ StoreLen > 0
    /\ Len(projected["p"]) > 0

\* C6: after a successful Send whose receiver published e1..en, the store
\* holds the events it held before the Send followed by e1..en in publish
\* order, and a Replay of "*" or of the receiver's stream delivers them last.
SendStoresPublishedEvents ==
    \A p \in Procs :
        (pc[p] = "done" /\ res[p].err = NoError)
            => LET published == Keys(Values(heap, txn[p]))
               IN  /\ IsPrefix(call[p].store, StoreSeq)
                   /\ Len(StoreSeq) = Len(call[p].store) + Len(txn[p])
                   /\ Keys(Replay(WILDCARD).seen) = call[p].keys \o published
                   /\ recv[p].id # WILDCARD
                        => Keys(Replay(recv[p].id).seen)
                            = recv[p].seen \o published

\* A successful Send that published two different events.
SendStoresPublishedEventsWitness ==
    /\ pc[Main] = "done"
    /\ res[Main].err = NoError
    /\ Len(txn[Main]) = 2
    /\ EventKey(ItemValue(heap, txn[Main][1])) # EventKey(ItemValue(heap, txn[Main][2]))

\* C7: during a successful Send whose receiver published e1..en, every
\* registered projection handler is invoked once for each ei, in publish order.
SendProjectsPublishedEvents ==
    \A p \in Procs :
        (pc[p] = "done" /\ res[p].err = NoError)
            => \A n \in Projections :
                projected[n] = call[p].projected[n]
                                \o Keys(Values(heap, txn[p]))

\* A successful Send that published an event to projections that had been
\* handed an event before.
SendProjectsPublishedEventsWitness ==
    /\ pc[Main] = "done"
    /\ res[Main].err = NoError
    /\ Len(txn[Main]) = 1
    /\ \A n \in Projections :
        Len(call[Main].projected[n]) = 1 /\ Len(projected[n]) = 2

\* C8: storage happens before projection: when Send is about to hand its
\* events to the projection handlers, the store holds every one of them, in
\* publish order, behind what it held before; and no projection handler has
\* ever been handed an event the store did not take.
StoredBeforeProjected ==
    /\ \A p \in Procs :
        pc[p] = "project"
            => /\ call[p].storeErr = NoError
               /\ Keys(StoredEvents)
                    = call[p].keys \o Keys(Values(heap, txn[p]))
    /\ \A n \in Projections :
        \A i \in 1..Len(projected[n]) :
            \E j \in 1..Len(appended) : projected[n][i] = EventKey(appended[j])

\* Send is about to project two events it has stored in the log file.
StoredBeforeProjectedWitness ==
    /\ kind = "disk"
    /\ pc[Main] = "project"
    /\ Len(txn[Main]) = 2

\* C9: if Store returns an error during Send, Send returns a result whose
\* Error() is that error, and no projection handler is invoked for any event
\* of that Send.
StoreErrorAborts ==
    \A p \in Procs :
        call[p].storeErr # NoError
            => /\ pc[p] = "done"
               /\ res[p] = NewErrorResult(call[p].storeErr)
               /\ projected = call[p].projected

\* The log file took the first event of a Send and refused the second.
StoreErrorAbortsWitness ==
    /\ pc[Main] = "done"
    /\ call[Main].storeErr = ErrEncode
    /\ Len(txn[Main]) = 2
    /\ Len(StoreSeq) = Len(call[Main].store) + 1

\* C10: if Replay returns an error during Send, Send returns a result whose
\* Error() is that error, HandleCommand is never invoked and Store is never
\* called.
ReplayErrorAborts ==
    \A p \in Procs :
        call[p].replayErr # NoError
            => /\ pc[p] = "done"
               /\ res[p] = NewErrorResult(call[p].replayErr)
               /\ recv[p].handled = 0
               /\ call[p].calls = <<"Replay">>
               /\ StoreSeq = call[p].store

\* Send on an on-disk store whose log file does not exist.
ReplayErrorAbortsWitness ==
    /\ pc[Main] = "done"
    /\ kind = "disk"
    /\ ~fileExists
    /\ call[Main].replayErr = ErrNotExist


\* C11: Init hands every event of the store, in append order, exactly once to
\* every registered projection handler, and leaves the store as it was.
InitProjectsTheStore ==
    direct.op = "Init"
        => /\ \A n \in Projections :
                projected[n] = direct.before[n] \o Keys(StoredEvents)
           /\ StoreSeq = direct.store

\* Init on a store of two events, with projections that had seen some before.
InitProjectsTheStoreWitness ==
    /\ direct.op = "Init"
    /\ direct.err = NoError
    /\ StoreLen = 2
    /\ \A n \in Projections :
        Len(direct.before[n]) > 0 /\ Len(projected[n]) = Len(direct.before[n]) + 2

\* Caller p's Send has returned a success result.
Accepted(p) == pc[p] = "done" /\ res[p].err = NoError

\* The "user.signed-up" events of stream id the store holds.
SignUpsOf(id) ==
    SelectSeq(OfStream(StoredEvents, id), LAMBDA e : e.Name = SignedUpName)

\* C12: nothing orders two Sends on one stream: when two concurrent sign-up
\* Sends for the same user have both been accepted, neither replay had seen
\* the other's event and both batches are in the store (a lost update).
ConcurrentSendsRace ==
    \A p \in Procs : \A q \in Procs \ {p} :
        (Accepted(p) /\ Accepted(q) /\ recv[p].id = recv[q].id)
            => /\ ~SignedUp(recv[p].seen)
               /\ ~SignedUp(recv[q].seen)
               /\ Len(SignUpsOf(recv[p].id)) = 2

\* Both callers signed up user "a" and were accepted; the stream holds two
\* "user.signed-up" events.
ConcurrentSendsRaceWitness ==
    /\ Accepted(Main)
    /\ Accepted("other")
    /\ recv[Main].id = "a"
    /\ recv["other"].id = "a"
    /\ Len(SignUpsOf("a")) = 2

\* C13: under strictly sequential Sends the store holds at most one
\* "user.signed-up" event per user id, and a sign-up for an id that has one
\* fails with username: not_unique.
SequentialSignUpIsUnique ==
    /\ \A id \in UserIds : Len(SignUpsOf(id)) <= 1
    /\ \A p \in Procs :
        (/\ pc[p] \in {"store", "project", "done", "panic"}
         /\ \E i \in 1..Len(call[p].keys) :
                call[p].keys[i] = <<recv[p].id, SignedUpName>>)
            => /\ pc[p] = "done"
               /\ res[p].err.type = "validation"
               /\ "username" \in DOMAIN res[p].err.Errors
               /\ res[p].err.Errors["username"] = <<"not_unique">>

\* A second sign-up for "a" was refused; both users have signed up once.
SequentialSignUpIsUniqueWitness ==
    /\ pc[Main] = "done"
    /\ recv[Main].id = "a"
    /\ res[Main].err # NoError
    /\ Len(SignUpsOf("a")) = 1
    /\ Len(SignUpsOf("b")) = 1

\* C14: if a field of the command failed to parse, Execute, and so Send,
\* never invokes the receiver's HandleCommand for that command.
ParseErrorsSkipHandleCommand ==
    \A p \in Procs : ~Ok(cmd[p].errors) => recv[p].handled = 0

\* C15: every failure of Send is a value-level error in the returned result
\* and never a panic; with a field that failed to parse and HandleCommand
\* returning nil, Execute returns the validation error holding the parse
\* errors.
SendNeverPanics ==
    \A p \in Procs :
        /\ pc[p] # "panic"
        /\ (/\ pc[p] \in {"store", "project", "done"}
            /\ ~Ok(cmd[p].errors)
            /\ recv[p].error = NoError)
                => /\ pc[p] = "done"
                   /\ res[p] = NewErrorResult(cmd[p].errors)

\* C16: Acknowledge sets the command's "now" to the clock's time and gives a
\* command without an identifier a synthesized one, so that a command that
\* has been sent has an identifier and its receiver, built by Send, has it too.
AcknowledgeSynthesizesId ==
    \A p \in Procs :
        cmd[p].sends > 0
            => /\ cmd[p].now = clock
               /\ AggregateId(cmd[p]) # ""
               /\ recv[p].id # ""

\* C17: for one command instance receiverFunc is invoked at most once over
\* any sequence of Receiver() and Send calls, and once a receiver is resolved
\* every later Receiver() call returns that same instance.
ReceiverIsMemoized ==
    [][\A p \in Procs :
        (pc[p] # "idle" /\ pc'[p] # "idle")
            => /\ cmd'[p].built <= 1
               /\ cmd[p].receiver # NoInstance
                    => cmd'[p].receiver = cmd[p].receiver]_vars

\* A command sent for the second time whose receiver handled it the first
\* time.
ReceiverIsMemoizedWitness ==
    /\ pc[Main] = "execute"
    /\ cmd[Main].sends = 2
    /\ cmd[Main].built = 1
    /\ recv[Main].handled = 1

\* C18: after Send's replay the receiver has been handed only events whose
\* stream id equals its own id, whatever that id is, the text "*" included.
ReceiverSeesOwnStreamOnly ==
    \A p \in Procs :
        pc[p] \in {"execute", "store", "project", "done", "panic"}
            => \A i \in 1..Len(recv[p].seen) : recv[p].seen[i][1] = recv[p].id

\* C19: after any sequence of Add and Merge calls on a ValidationError, Ok()
\* is true iff no call recorded an error, and Return() is nil exactly when
\* Ok() is true and the instance itself otherwise.
OkIffNothingRecorded ==
    direct.op = "ValidationError"
        => /\ direct.ok <=> ~direct.recorded
           /\ direct.ok => direct.returned = NoError
           /\ ~direct.ok => direct.returned = direct.verr

\* An instance that holds a message of an Add and two of a Merge of another
\* ValidationError.
OkIffNothingRecordedWitness ==
    /\ direct.op = "ValidationError"
    /\ direct.last = "Merge"
    /\ direct.arg.type = "validation"
    /\ MessageCount(direct.arg) = 2
    /\ MessageCount(direct.verr) = 3
    /\ direct.returned = direct.verr

\* C20: Merge(err) with err a non-nil error that is no *ValidationError
\* appends exactly one message, err.Error(), to the list under "$all" and
\* changes no other field.
MergeForeignError ==
    (/\ direct.op = "ValidationError"
     /\ direct.last = "Merge"
     /\ direct.arg.type = "error")
        => LET was == direct.before.Errors
               now == direct.verr.Errors
           IN  /\ DOMAIN now = DOMAIN was \cup {"$all"}
               /\ now["$all"] = MessagesOf(was, "$all") \o <<direct.arg.text>>
               /\ \A f \in DOMAIN was \ {"$all"} : now[f] = was[f]

\* A foreign error merged into an instance that held a message under "$all"
\* and one under another field.
MergeForeignErrorWitness ==
    /\ direct.op = "ValidationError"
    /\ direct.last = "Merge"
    /\ direct.arg = ErrorText("test error")
    /\ DOMAIN direct.before.Errors = {"f", "$all"}
    /\ Len(direct.verr.Errors["$all"]) = 2

FailsToParse(name, text) ==
    UnmarshalText(FieldType[name], "", text).err # NoError

\* C22: FromForm, and each Set call, parses every field it is given: one
\* error is recorded under the name of each field whose text fails to parse,
\* none under the others, and a field that parses gets its value whether or
\* not another field failed.
EveryFieldIsParsed ==
    /\ (direct.op = "Command" /\ direct.last = "FromForm")
        => \A f \in FieldNames :
            LET out == UnmarshalText(FieldType[f], "", direct.form[f])
            IN  IF FailsToParse(f, direct.form[f])
                THEN /\ f \in DOMAIN direct.command.errors.Errors
                     /\ direct.command.errors.Errors[f] = <<out.err.text>>
                ELSE /\ f \notin DOMAIN direct.command.errors.Errors
                     /\ direct.command.Fields[f] = out.value
    /\ (direct.op = "Command" /\ direct.last = "Set" /\ direct.name \in FieldNames)
        => LET f == direct.name
               was == direct.before.errors.Errors
               now == direct.command.errors.Errors
           IN  /\ \A g \in FieldNames \ {f} :
                    /\ MessagesOf(now, g) = MessagesOf(was, g)
                    /\ direct.command.Fields[g] = direct.before.Fields[g]
               /\ Len(MessagesOf(now, f)) = Len(MessagesOf(was, f))
                    + (IF FailsToParse(f, direct.text) THEN 1 ELSE 0)

\* A form whose first and last field fail to parse and whose fields in
\* between parse.
EveryFieldIsParsedWitness ==
    /\ direct.op = "Command"
    /\ direct.last = "FromForm"
    /\ DOMAIN direct.command.errors.Errors = {"username", "password"}
    /\ direct.command.Fields["email"] = "a@b.c"
    /\ direct.command.Fields["name"] = "admin"

\* C23: when parsing recorded errors and HandleCommand returns a validation
\* error too, Execute returns one validation error that holds, for every
\* field of either, the parse messages followed by the receiver's messages.
ExecuteMergesBothErrorSets ==
    [][\A p \in Procs :
        (/\ pc[p] = "execute"
         /\ pc'[p] # "execute"
         /\ ~Ok(cmd[p].errors)
         /\ recv'[p].error.type = "validation")
            => LET parse == cmd[p].errors.Errors
                   receiver == recv'[p].error.Errors
               IN  /\ pc'[p] = "done"
                   /\ res'[p].err.type = "validation"
                   /\ res'[p].err.Errors =
                        [f \in DOMAIN parse \cup DOMAIN receiver |->
                            MessagesOf(parse, f) \o MessagesOf(receiver, f)]]_vars

\* Send returned the parse error and the receiver's error of one field in
\* one validation error.
ExecuteMergesBothErrorSetsWitness ==
    /\ pc[Main] = "done"
    /\ recv[Main].error = ReceiverFailure
    /\ res[Main].err.type = "validation"
    /\ res[Main].err.Errors = [f \in {"param"} |-> <<"malformed", "invalid">>]

\* C24: every event a Send has passed to Store carries the application
\* clock's time as its occurred-on time, in buffer order; Send stores no event
\* whose occurred-on time is unset.
SendStampsOccurrence ==
    \A p \in Procs :
        (pc[p] \in {"project", "done"} /\ call[p].calls # <<>>
            /\ \E i \in 1..Len(call[p].calls) : call[p].calls[i] = "Store")
            => /\ \A i \in 1..Len(txn[p]) :
                    /\ ItemValue(heap, txn[p][i]).OccurredOn = clock
                    /\ ItemValue(heap, txn[p][i]).OccurredOn # ZeroTime
               /\ \A i \in (Len(call[p].store) + 1)..Len(StoredEvents) :
                    /\ StoredEvents[i].OccurredOn = clock
                    /\ EventKey(StoredEvents[i])
                        = EventKey(ItemValue(heap, txn[p][i - Len(call[p].store)]))

\* A successful Send of one event on the in-memory store, behind an event a
\* client had stored without an occurred-on time.
SendStampsOccurrenceWitness ==
    /\ kind = "memory"
    /\ pc[Main] = "done"
    /\ res[Main].err = NoError
    /\ Len(txn[Main]) = 1
    /\ Len(StoredEvents) = 2
    /\ StoredEvents[1].OccurredOn = ZeroTime
    /\ StoredEvents[2].OccurredOn = TheTime

\* C25: the events HandleCommand publishes go into the buffer of this Send
\* alone: the buffer is empty when HandleCommand starts, and once it has
\* returned and before Send calls Store, the store is as it was when Send was
\* entered and a Replay of "*" delivers what it delivered then.
PublishedEventsAreBuffered ==
    \A p \in Procs :
        /\ pc[p] \in {"replay", "execute"} => txn[p] = <<>>
        /\ pc[p] \in {"execute", "store"}
            => /\ StoreSeq = call[p].store
               /\ Keys(Replay(WILDCARD).seen) = call[p].keys

\* HandleCommand has published a new event and returned; the store holds the
\* one event it held before.
PublishedEventsAreBufferedWitness ==
    /\ pc[Main] = "store"
    /\ Len(txn[Main]) = 1
    /\ IsFresh(txn[Main][1])
    /\ StoreLen = 1
    /\ Len(Replay(WILDCARD).seen) = 1

\* Replay, HandleCommand (with no parse errors) and Store were all called by
\* caller p's Send and none returned an error.
Completed(p) ==
    /\ \E i \in 1..Len(call[p].calls) : call[p].calls[i] = "HandleCommand"
    /\ \E i \in 1..Len(call[p].calls) : call[p].calls[i] = "Store"
    /\ call[p].replayErr = NoError
    /\ recv[p].error = NoError
    /\ Ok(cmd[p].errors)
    /\ call[p].storeErr = NoError

\* C26: the result Send returns has a nil Error() and the receiver's id as
\* AggregateId() if and only if replay, execute and store all completed
\* without error; every other result carries a non-nil Error().
SuccessIffAllStepsCompleted ==
    \A p \in Procs :
        pc[p] = "done"
            => /\ res[p].returned
               /\ res[p].err = NoError <=> Completed(p)
               /\ Completed(p) => res[p].aggregateId = recv[p].id
               /\ ~Completed(p) => res[p].err.type \in {"error", "validation"}

\* A Send for aggregate "a" that stored an event in the log file and
\* returned the success result carrying "a".
SuccessIffAllStepsCompletedWitness ==
    /\ kind = "disk"
    /\ pc[Main] = "done"
    /\ Completed(Main)
    /\ Len(txn[Main]) = 1
    /\ res[Main].aggregateId = "a"

\* C27: once an event is contained in a store, no later Store, Replay, Send
\* or Init changes any of its fields, also not when the same event object is
\* published and stored again by a later Send.
StoredEventsNeverChange ==
    [][\A i \in 1..Len(StoredEvents) :
            /\ i <= Len(StoredEvents')
            /\ StoredEvents'[i] = StoredEvents[i]]_vars

\* C28: the in-memory store's Store never returns an error, and after
\* Store(batch) a Replay("*") delivers the events the store held before
\* followed by every event of batch in the given order.
InMemoryStoreTakesWholeBatch ==
    (kind = "memory" /\ direct.op = "Store")
        => /\ direct.err = NoError
           /\ Replay(WILDCARD).err = NoError
           /\ Replay(WILDCARD).seen
                = [i \in 1..Len(direct.before) |-> heap[direct.before[i]]]
                    \o [i \in 1..Len(direct.batch) |-> direct.batch[i].ev]

\* A Store of two different events, one of them with a payload the on-disk
\* store refuses.
InMemoryStoreTakesWholeBatchWitness ==
    /\ kind = "memory"
    /\ direct.op = "Store"
    /\ Len(direct.batch) = 2
    /\ direct.batch[1].ev.Name # direct.batch[2].ev.Name
    /\ ChanVal \in {direct.batch[2].ev.Payload[k] : k \in DOMAIN direct.batch[2].ev.Payload}
    /\ Len(Replay(WILDCARD).seen) = 2

\* C29: every event stored with the on-disk store and then replayed (by any
\* EventsOnDisk instance on the same file) has the name, the stream id and
\* the payload values of the stored one.
OnDiskRoundTrip ==
    (kind = "disk" /\ fileExists)
        => LET seen == Replay(WILDCARD).seen
           IN  /\ Len(seen) = Len(appended)
               /\ \A i \in 1..Len(seen) :
                    /\ seen[i].Name = appended[i].Name
                    /\ seen[i].StreamId = appended[i].StreamId
                    /\ seen[i].Payload = appended[i].Payload

\* C30: the on-disk store's Replay on a log file that does not exist returns
\* an error, invokes the handler zero times and does not create the file.
ReplayOfMissingFileFails ==
    [][\A streamId \in StreamIds :
        (kind = "disk" /\ ~fileExists /\ ReplayCall(streamId))
            => /\ direct'.err # NoError
               /\ direct'.seen = <<>>
               /\ ~fileExists'
               /\ file' = file]_vars

\* A Replay of "*" on a store whose log file no Store has created returned
\* the error of os.Open and handed the handler nothing.
ReplayOfMissingFileFailsWitness ==
    /\ kind = "disk"
    /\ ~fileExists
    /\ Len(appended) = 0
    /\ direct.op = "Replay"
    /\ direct.streamId = WILDCARD
    /\ direct.err = ErrNotExist
    /\ direct.seen = <<>>

\* C31: the on-disk store holds no open file handle between operations:
\* when a Store or Replay call has returned, on every exit path, the handle
\* that call opened has been closed.
NoHandleLeftOpen ==
    (kind = "disk" /\ direct.op \in {"Store", "Replay"}) => direct.open = 0

\* The commands whose field values or recorded errors the step changed.
ChangedCommands ==
    {d \in 1..Len(direct.commands) :
        \/ direct'.commands[d] # direct.commands[d]
        \/ FieldValues(direct'.values, direct'.commands[d].Fields)
            # FieldValues(direct.values, direct.commands[d].Fields)}

\* C32: NewCommand gives each command its own copy of every field value of
\* the definition and an identifier field; setting a field on one command
\* changes neither the definition's prototype values nor the field values of
\* another command of the same definition.
CommandsOwnTheirValues ==
    [][(direct.op = "Definition" /\ direct'.op = "Definition")
        => /\ FieldValues(direct'.values, direct'.proto)
                = FieldValues(direct.values, direct.proto)
           /\ IF Len(direct'.commands) > Len(direct.commands)
              THEN LET new == direct'.commands[Len(direct'.commands)]
                   IN  /\ IdField \in DOMAIN new.Fields
                       /\ FieldValues(direct'.values, new.Fields)
                            = FieldValues(direct.values, direct.proto)
                       /\ ChangedCommands = {}
              ELSE Cardinality(ChangedCommands) <= 1]_vars

\* Two commands of one definition whose "name" prototype holds "admin": one
\* was set to another name and identifier, the other and the prototype were not.
CommandsOwnTheirValuesWitness ==
    /\ direct.op = "Definition"
    /\ Len(direct.commands) = 2
    /\ FieldValues(direct.values, direct.proto)
        = [f \in FieldNames |-> IF f = "name" THEN "admin" ELSE ""]
    /\ FieldValues(direct.values, direct.commands[2].Fields)
        = FieldValues(direct.values, direct.proto)
    /\ direct.values[direct.commands[1].Fields["name"]] = "Bad Id"
    /\ direct.values[direct.commands[1].Fields["username"]] = "admin"

\* C33: projection consistency. Init hands projections that have received
\* nothing the store's whole sequence, and every sequential Send that starts
\* with each projection having received exactly the store's sequence ends,
\* successful or failed, with each projection having received exactly the
\* store's sequence.
ProjectionsFollowTheStore ==
    /\ (direct.op = "Init" /\ \A n \in Projections : direct.before[n] = <<>>)
        => \A n \in Projections : projected[n] = Keys(StoredEvents)
    /\ \A p \in Procs :
        (/\ pc[p] \in {"done", "panic"}
         /\ \A n \in Projections : call[p].projected[n] = call[p].keys)
            => \A n \in Projections : projected[n] = Keys(StoredEvents)

\* C34: with an on-disk store whose log file does not exist, Send returns the
\* replay error before HandleCommand runs and never reaches Store, and Init
\* fails as well; so neither creates the file (only a Store call by a client
\* does), and no Send succeeds while it is missing.
MissingLogFileFailsEverySend ==
    [][(kind = "disk" /\ ~fileExists)
        => /\ fileExists' => (direct'.op = "Store" /\ pc' = pc)
           /\ ~fileExists'
                => /\ \A p \in Procs :
                        /\ pc'[p] \in {"idle", "new", "replay", "done"}
                        /\ pc'[p] = "done"
                            => /\ res'[p].err = ErrNotExist
                               /\ call'[p].calls = <<"Replay">>
                               /\ recv'[p].handled = 0
                   /\ direct'.op = "Init"
                        => /\ direct'.err = ErrNotExist
                           /\ projected' = direct'.before]_vars

\* A Send on the on-disk store returned the error of opening the missing
\* log file, having called nothing but Replay, and the file is still missing.
MissingLogFileFailsEverySendWitness ==
    /\ kind = "disk"
    /\ ~fileExists
    /\ pc[Main] = "done"
    /\ res[Main].err = ErrNotExist
    /\ call[Main].calls = <<"Replay">>
    /\ Ok(cmd[Main].errors)

\* The positions of a batch whose event encoding/json refuses.
Unencodable(batch) == {i \in 1..Len(batch) : ~Encodable(batch[i].ev)}

\* C35: when the on-disk Store fails while encoding the k-th event of a
\* batch, it returns the error, the log file holds its earlier content
\* followed by the records of the first k-1 events of the batch, and none of
\* the remaining events is written.
EncodingFailureLeavesPrefix ==
    (/\ kind = "disk"
     /\ direct.op = "Store"
     /\ direct.err # ErrOpen
     /\ Unencodable(direct.batch) # {})
        => LET k == CHOOSE i \in Unencodable(direct.batch) :
                        \A j \in Unencodable(direct.batch) : i <= j
           IN  /\ direct.err = ErrEncode
               /\ fileExists
               /\ file = direct.before
                        \o [i \in 1..(k - 1) |->
                                Encode(Persist(direct.batch[i].ev, clock))]

\* A Store of two events failed on the second: the log file holds the
\* record of the first.
EncodingFailureLeavesPrefixWitness ==
    /\ kind = "disk"
    /\ direct.op = "Store"
    /\ direct.err = ErrEncode
    /\ Unencodable(direct.batch) = {2}
    /\ Len(file) = 1
    /\ Decode(file[1]).Name = direct.batch[1].ev.Name

\* C36: the on-disk Store sets the persisted-at time of every event of the
\* batch to the store clock's time before writing it, in batch order; an
\* event whose encoding was never attempted, because an earlier one failed or
\* the file could not be opened, keeps its previous persisted-at value.
StoreStampsPersistedAt ==
    (kind = "disk" /\ direct.op = "Store")
        => LET refused == Unencodable(direct.batch)
               attempted ==
                    IF direct.err = ErrOpen THEN 0
                    ELSE IF refused = {} THEN Len(direct.batch)
                    ELSE CHOOSE i \in refused : \A j \in refused : i <= j
               written == Len(file) - Len(direct.before)
           IN  /\ Len(direct.after) = Len(direct.batch)
               /\ \A i \in 1..Len(direct.batch) :
                    /\ i <= attempted
                        => direct.after[i]
                            = [direct.batch[i].ev EXCEPT !.PersistedAt = clock]
                    /\ i > attempted => direct.after[i] = direct.batch[i].ev
               /\ \A i \in 1..written :
                    /\ Decode(file[Len(direct.before) + i]).PersistedAt = clock
                    /\ Decode(file[Len(direct.before) + i]).Name
                        = direct.batch[i].ev.Name

\* A Store of two events whose first is refused by json: the first carries
\* the clock's time, the second was never attempted and keeps the zero time.
StoreStampsPersistedAtWitness ==
    /\ kind = "disk"
    /\ direct.op = "Store"
    /\ direct.err = ErrEncode
    /\ Len(direct.after) = 2
    /\ direct.after[1].PersistedAt = TheTime
    /\ direct.after[2].PersistedAt = ZeroTime

\* How often caller p's Send has called the step named.
CallCount(p, step) ==
    Cardinality({i \in 1..Len(call[p].calls) : call[p].calls[i] = step})

\* C37: nothing is retried and nothing loops: every Send ends with a result,
\* after at most one Replay call, at most one HandleCommand invocation and at
\* most one Store call.
SendEndsWithResult ==
    \A p \in Procs :
        /\ CallCount(p, "Replay") <= 1
        /\ CallCount(p, "HandleCommand") <= 1
        /\ CallCount(p, "Store") <= 1
        /\ pc[p] # "panic"
        /\ pc[p] = "done" => res[p].returned

\* The sequence seq, k times over.
RECURSIVE Repeat(_, _)
Repeat(seq, k) == IF k = 0 THEN <<>> ELSE Repeat(seq, k - 1) \o seq

\* C38: Init keeps no record of having run: a call of Init on projections
\* that have been handed the store's events k times leaves them handed every
\* stored event k + 1 times, so n calls deliver every event n times; and each
\* call leaves the store unchanged.
InitRunsEveryTime ==
    direct.op = "Init"
        => /\ StoreSeq = direct.store
           /\ \A n \in Projections, k \in 0..MaxLog :
                direct.before[n] = Repeat(Keys(StoredEvents), k)
                    => projected[n] = Repeat(Keys(StoredEvents), k + 1)

\* A second Init on a store of two events: every projection has been handed
\* both events twice.
InitRunsEveryTimeWitness ==
    /\ direct.op = "Init"
    /\ direct.err = NoError
    /\ StoreLen = 2
    /\ \A n \in Projections :
        /\ direct.before[n] = Keys(StoredEvents)
        /\ projected[n] = Keys(StoredEvents) \o Keys(StoredEvents)

\* C39: Set(name, text) for a name that is not a field of the command changes
\* no field value and records no error; for a known field it changes only
\* that field and, on a parse failure, appends exactly one message, the
\* error's text, under that field's name and nowhere else.
SetTouchesOnlyItsField ==
    (direct.op = "Command" /\ direct.last = "Set")
        => LET f == direct.name
               was == direct.before.errors.Errors
               now == direct.command.errors.Errors
           IN  IF f \notin FieldNames
               THEN direct.command = direct.before
               ELSE LET out == UnmarshalText(FieldType[f],
                                             direct.before.Fields[f], direct.text)
                    IN  /\ \A g \in FieldNames \ {f} :
                            direct.command.Fields[g] = direct.before.Fields[g]
                        /\ direct.command.Fields[f] = out.value
                        /\ \A g \in (DOMAIN now \cup DOMAIN was) \ {f} :
                            MessagesOf(now, g) = MessagesOf(was, g)
                        /\ MessagesOf(now, f)
                            = IF out.err = NoError THEN MessagesOf(was, f)
                              ELSE Append(MessagesOf(was, f), out.err.text)

\* A Set of "username" that failed to parse on a command that holds values
\* and an earlier error under "username" and under "email".
SetTouchesOnlyItsFieldWitness ==
    /\ direct.op = "Command"
    /\ direct.last = "Set"
    /\ direct.name = "username"
    /\ direct.before.Fields["username"] = "admin"
    /\ direct.before.Fields["name"] = "admin"
    /\ DOMAIN direct.before.errors.Errors = {"username", "email"}
    /\ Len(direct.command.errors.Errors["username"]) = 2
    /\ direct.command.Fields = direct.before.Fields

\* C40: stream matching in Replay is exact string equality apart from the
\* wildcard: for a streamId other than "*" exactly the events whose stream id
\* equals streamId are delivered, none whose stream id is a proper prefix, an
\* extension or a different case of it; an event with the empty stream id is
\* delivered only by Replay("") and Replay("*").
ReplayMatchesExactly ==
    (direct.op = "Replay" /\ direct.err = NoError)
        => /\ direct.streamId # WILDCARD
                => /\ \A i \in 1..Len(direct.seen) :
                        direct.seen[i].StreamId = direct.streamId
                   /\ Len(direct.seen)
                        = Len(OfStream(StoredEvents, direct.streamId))
           /\ direct.streamId = WILDCARD
                => Keys(direct.seen) = Keys(StoredEvents)
           /\ (\E i \in 1..Len(direct.seen) : direct.seen[i].StreamId = "")
                => direct.streamId \in {"", WILDCARD}

\* Replay("a") on a store that holds an event of stream "" and one of stream
\* "ab" delivered nothing.
ReplayMatchesExactlyWitness ==
    /\ direct.op = "Replay"
    /\ direct.err = NoError
    /\ direct.streamId = "a"
    /\ {StoredEvents[i].StreamId : i \in 1..Len(StoredEvents)} = {"", "ab"}
    /\ direct.seen = <<>>
====
